---- MODULE Spec2Model ----
\* DeskBike CSC accumulator: DeskBikeDataUpdateCoordinator of
\* custom_components/deskbike/sensor.py, modelled as a state machine.
\*
\* Units (the source stores floats; the model keeps exact integers):
\*   distance, daily_distance          millimetres      (km  * 10^6)
\*   speed, cadence                    tenths           (round(x, 1) * 10)
\*   daily/total_active_time           seconds
\*   daily/total_calories              kcal * 720000    (3600 * 100 * 2)
\*   weight                            half kilograms   (kg * 2)
\*   resistance                        percent
\*   now and every timestamp           seconds of local wall clock
\* A 32-bit revolution count is a record [hi, lo] of two 16-bit halves.
EXTENDS Integers, Sequences, FiniteSets, TLC

\* ---------------------------------------------------------------- bounds
MaxSteps == 5

\* ------------------------------------------------------ program constants
DEFAULT_WEIGHT == 140
DEFAULT_RESISTANCE == 100
MET_LIGHT == 4
MET_MODERATE == 6
MET_VIGOROUS == 8
MET_VERY_VIGOROUS == 10
MET_RACING == 12
WheelCircumferenceMm == 2096
SuspiciousWheelRevs == 1000
SuspiciousCrankRevs == 100
MaxSpeedKmh == 100
ActivityTimeoutSeconds == 3
DaySeconds == 86400
CaloriesTickSeconds == 1

\* ------------------------------------------------------------- optionals
None == <<>>
Some(x) == <<x>>
IsNone(o) == o = <<>>
Val(o) == o[1]

\* --------------------------------------------------- fixed-width helpers
Pow2_8 == 256
Pow2_16 == 65536

U32(h, l) == [hi |-> h, lo |-> l]
Zero32 == U32(0, 0)

\* a >= b on unsigned 32-bit values
Geq32(a, b) == \/ a.hi > b.hi
               \/ a.hi = b.hi /\ a.lo >= b.lo

\* a - b for a >= b
Sub32(a, b) ==
    IF a.lo >= b.lo THEN U32(a.hi - b.hi, a.lo - b.lo)
    ELSE U32(a.hi - b.hi - 1, a.lo + Pow2_16 - b.lo)

\* a + b, for a sum that fits in 32 bits
Add32(a, b) ==
    IF a.lo + b.lo < Pow2_16 THEN U32(a.hi + b.hi, a.lo + b.lo)
    ELSE U32(a.hi + b.hi + 1, a.lo + b.lo - Pow2_16)

Max32 == U32(65535, 65535)
One32 == U32(0, 1)

\* v > n for a small natural n < 2^16
Gt32Small(v, n) == v.hi > 0 \/ v.lo > n

\* (x - y) & 0xFFFF
Mask16(x) == x % Pow2_16

\* ------------------------------------------------- struct.unpack_from
\* little-endian unsigned 16-bit at 1-based position p of dat
LE16(dat, p) == dat[p] + Pow2_8 * dat[p + 1]
LE32(dat, p) == U32(LE16(dat, p + 2), LE16(dat, p))

\* struct.unpack_from(fmt, data, offset) raises struct.error when fewer than
\* size bytes remain after the offset (offset is 0-based as in the source)
UnpackFits(dat, offset, size) == Len(dat) - offset >= size

\* ------------------------------------------------------------- rounding
\* floor and remainder of (a * 2^k) / d without leaving the 32-bit range
RECURSIVE ScaledDiv(_, _, _)
ScaledDiv(qr, d, k) ==
    IF k = 0 THEN qr
    ELSE ScaledDiv([q |-> 2 * qr.q + (IF 2 * qr.r >= d THEN 1 ELSE 0),
                    r |-> (2 * qr.r) % d], d, k - 1)

\* round-half-even of a quotient q with remainder r of a division by d
RoundHalfEven(qr, d) ==
    IF 2 * qr.r < d THEN qr.q
    ELSE IF 2 * qr.r > d THEN qr.q + 1
    ELSE IF qr.q % 2 = 0 THEN qr.q ELSE qr.q + 1

\* round(x, 1) * 10 for x = (a * 2^k) / (10 * d)
RoundScaled(a, d, k) ==
    RoundHalfEven(ScaledDiv([q |-> a \div d, r |-> a % d], d, k), d)

\* ---------------------------------------------------------------- state
VARIABLES
    last_wheel_rev,           \* _last_wheel_rev (32-bit, [hi, lo])
    last_wheel_event,         \* _last_wheel_event
    last_crank_rev,           \* _last_crank_rev
    last_crank_event,         \* _last_crank_event
    last_activity_check,      \* _last_activity_check (None or Some(t))
    last_active,              \* _last_active
    activity_start_time,      \* _activity_start_time
    daily_reset_time,         \* _daily_reset_time (None: attribute not set)
    weight,                   \* _weight
    resistance,               \* _resistance
    data,                     \* _data
    last_saved_daily_values,  \* _last_saved_daily_values
    published,                \* argument of the last async_set_updated_data
    reload_tasks,             \* tasks created for _reload_sensor_values
    save_tasks,               \* tasks created for _save_persistent_data
    now,                      \* dt_util.now()
    steps,                    \* operations run since start-up
    seen,                     \* fields some earlier notification carried
    obs,                      \* what the last operation did
    connected,                \* _connected
    client,                   \* _client is not None
    last_connection_attempt,  \* _last_connection_attempt
    snapshot_live,            \* coordinator.data is the dict _data itself
    stored,                   \* content of the persistent store
    saves_run,                \* _save_persistent_data tasks that have run
    last_save,                \* _last_save (None: attribute not set)
    flushed,                  \* the memory the store's content was built from
    attempts,                 \* force_reconnect calls under way, by caller
    reconnect_task,           \* state of the task in _reconnect_task
    reconnect_alive           \* reconnect tasks created and not finished

coord == <<last_wheel_rev, last_wheel_event, last_crank_rev, last_crank_event,
           last_activity_check, last_active, activity_start_time,
           daily_reset_time, data, last_saved_daily_values, published,
           reload_tasks, save_tasks>>

vars == <<last_wheel_rev, last_wheel_event, last_crank_rev, last_crank_event,
          last_activity_check, last_active, activity_start_time,
          daily_reset_time, weight, resistance, data,
          last_saved_daily_values, published, reload_tasks, save_tasks,
          now, steps, seen, obs, connected, client,
          last_connection_attempt, snapshot_live, stored, saves_run,
          last_save, flushed, attempts, reconnect_task, reconnect_alive>>

link == <<attempts, reconnect_task, reconnect_alive>>
conn == <<connected, client, last_connection_attempt, link>>
store == <<stored, saves_run, last_save, flushed>>

DailySensors == {"daily_distance", "daily_active_time", "daily_calories",
                 "daily_crank_rotations"}

PersistentSensors == {"total_active_time", "total_crank_rotations",
                      "distance", "total_calories"}

\* self._data of __init__ (battery and the device identity strings, which
\* no CSC notification touches, are left out)
InitData ==
    [speed |-> 0, distance |-> 0, daily_distance |-> 0, cadence |-> 0,
     last_active |-> None, daily_active_time |-> 0, total_active_time |-> 0,
     daily_calories |-> 0, total_calories |-> 0, is_active |-> FALSE,
     is_connected |-> FALSE, daily_crank_rotations |-> 0,
     total_crank_rotations |-> 0]

\* the coordinator's fields as one record, threaded through the handler
Cur ==
    [last_wheel_rev |-> last_wheel_rev, last_wheel_event |-> last_wheel_event,
     last_crank_rev |-> last_crank_rev, last_crank_event |-> last_crank_event,
     last_activity_check |-> last_activity_check, last_active |-> last_active,
     activity_start_time |-> activity_start_time,
     daily_reset_time |-> daily_reset_time, data |-> data,
     last_saved_daily_values |-> last_saved_daily_values,
     published |-> published, reload_tasks |-> reload_tasks,
     save_tasks |-> save_tasks]

Install(s) ==
    /\ last_wheel_rev' = s.last_wheel_rev
    /\ last_wheel_event' = s.last_wheel_event
    /\ last_crank_rev' = s.last_crank_rev
    /\ last_crank_event' = s.last_crank_event
    /\ last_activity_check' = s.last_activity_check
    /\ last_active' = s.last_active
    /\ activity_start_time' = s.activity_start_time
    /\ daily_reset_time' = s.daily_reset_time
    /\ data' = s.data
    /\ last_saved_daily_values' = s.last_saved_daily_values
    /\ published' = s.published
    /\ reload_tasks' = s.reload_tasks
    /\ save_tasks' = s.save_tasks

\* dt_util.start_of_local_day()
StartOfLocalDay(t) == t - (t % DaySeconds)

\* ------------------------------------------------------- wheel arithmetic
\* wrap compensation that forgets the + 1
WheelRevDiffOffByOne(wheel_revs, last) ==
    IF Geq32(wheel_revs, last) THEN Sub32(wheel_revs, last)
    ELSE Add32(Sub32(Max32, last), wheel_revs)

\* lines 623-627
WheelRevDiff(wheel_revs, last) ==
    IF Geq32(wheel_revs, last) THEN Sub32(wheel_revs, last)
    ELSE Add32(Add32(Sub32(Max32, last), wheel_revs), One32)

\* wrap compensation by comparison that also wraps equal timestamps
WheelEventDiffWrapEqual(wheel_event, last) ==
    IF wheel_event > last THEN wheel_event - last
    ELSE wheel_event - last + Pow2_16

\* line 617
WheelEventDiff(wheel_event, last) == Mask16(wheel_event - last)

\* line 630
WheelSuspicious(rev_diff) == Gt32Small(rev_diff, SuspiciousWheelRevs)

\* lines 639-640: speed = rev_diff * 2.096 / (event_diff / 1024.0) * 3.6
\*   = (rev_diff * 2096 * 9 * 2^12) / (10000 * event_diff)  km/h
SpeedNum(rev_diff) == rev_diff * WheelCircumferenceMm * 9

\* quotient and remainder of the speed in km/h
SpeedQr(n, d) == ScaledDiv([q |-> n \div d, r |-> n % d], d, 12)

\* speed <= 100 on a quotient and remainder
AtMostMax(qr) == qr.q < MaxSpeedKmh \/ (qr.q = MaxSpeedKmh /\ qr.r = 0)

\* range test without the upper bound
SpeedNotNegative(rev_diff, event_diff) == SpeedNum(rev_diff) >= 0

\* line 643: 0 <= speed <= 100
SpeedInRange(rev_diff, event_diff) ==
    AtMostMax(SpeedQr(SpeedNum(rev_diff), 10000 * event_diff))

\* line 644: round(speed, 1), in tenths
RoundedSpeed(rev_diff, event_diff) ==
    RoundScaled(SpeedNum(rev_diff), 1000 * event_diff, 12)

\* distance of a single revolution, whatever the delta
DistanceOneRev(rev_diff) == WheelCircumferenceMm

\* lines 645-647: distance / 1000 km, in millimetres
DistanceMm(rev_diff) == rev_diff * WheelCircumferenceMm

\* shadow update that keeps the old revolution count
AdvanceWheelEventOnly(s, wheel_revs, wheel_event) ==
    [s EXCEPT !.last_wheel_event = wheel_event]

\* lines 635-636 and 650-651
AdvanceWheel(s, wheel_revs, wheel_event) ==
    [s EXCEPT !.last_wheel_rev = wheel_revs, !.last_wheel_event = wheel_event]

\* what a block did: the coordinator after it, how it was left ("next":
\* fall through, "return": line 637, "raise": exception), whether it set
\* activity_detected, and the branch taken with the values it computed
NoWheel == [path |-> "absent", event_diff |-> None, rev_diff |-> None,
            revs |-> None, event |-> None]

WheelOut(s, exit, activity, path, revs, event, event_diff, rev_diff) ==
    [s |-> s, exit |-> exit, activity |-> activity,
     w |-> [path |-> path, event_diff |-> event_diff, rev_diff |-> rev_diff,
            revs |-> revs, event |-> event]]

\* lines 639-648
WheelAccept(s, wheel_revs, wheel_event, event_diff, rev_diff) ==
    IF SpeedInRange(rev_diff.lo, event_diff)
    THEN WheelOut([AdvanceWheel(s, wheel_revs, wheel_event) EXCEPT
                     !.data.speed = RoundedSpeed(rev_diff.lo, event_diff),
                     !.data.distance = @ + DistanceMm(rev_diff.lo),
                     !.data.daily_distance = @ + DistanceMm(rev_diff.lo)],
                  "next", TRUE, "applied", Some(wheel_revs),
                  Some(wheel_event), Some(event_diff), Some(rev_diff))
    ELSE WheelOut(AdvanceWheel(s, wheel_revs, wheel_event), "next", FALSE,
                  "overspeed", Some(wheel_revs), Some(wheel_event),
                  Some(event_diff), Some(rev_diff))

\* lines 629-648
WheelDelta(s, wheel_revs, wheel_event, event_diff, rev_diff) ==
    IF WheelSuspicious(rev_diff)
    THEN WheelOut(AdvanceWheel(s, wheel_revs, wheel_event), "return", FALSE,
                  "suspicious", Some(wheel_revs), Some(wheel_event),
                  Some(event_diff), Some(rev_diff))
    ELSE WheelAccept(s, wheel_revs, wheel_event, event_diff, rev_diff)

\* lines 618-648
WheelTimed(s, wheel_revs, wheel_event, event_diff) ==
    IF event_diff > 0
    THEN WheelDelta(s, wheel_revs, wheel_event, event_diff,
                    WheelRevDiff(wheel_revs, s.last_wheel_rev))
    ELSE WheelOut(AdvanceWheel(s, wheel_revs, wheel_event), "next", FALSE,
                  "duplicate", Some(wheel_revs), Some(wheel_event),
                  Some(event_diff), None)

\* lines 616-651
WheelUnpacked(s, wheel_revs, wheel_event) ==
    IF s.last_wheel_event # 0
    THEN WheelTimed(s, wheel_revs, wheel_event,
                    WheelEventDiff(wheel_event, s.last_wheel_event))
    ELSE WheelOut(AdvanceWheel(s, wheel_revs, wheel_event), "next", FALSE,
                  "first", Some(wheel_revs), Some(wheel_event), None, None)

\* lines 614-652; struct.unpack_from("<LH", data, 1)
WheelBlock(s, dat) ==
    IF UnpackFits(dat, 1, 6)
    THEN WheelUnpacked(s, LE32(dat, 2), LE16(dat, 6))
    ELSE WheelOut(s, "raise", FALSE, "raise", None, None, None, None)

\* ------------------------------------------------------- crank arithmetic
\* naive subtraction, no wrap compensation
CrankRevDiffNaive(crank_revs, last) == crank_revs - last

\* wrap compensation that forgets the + 1
CrankRevDiffOffByOne(crank_revs, last) ==
    IF crank_revs >= last THEN crank_revs - last
    ELSE (65535 - last) + crank_revs

\* lines 660-664
CrankRevDiff(crank_revs, last) ==
    IF crank_revs >= last THEN crank_revs - last
    ELSE (65535 - last) + crank_revs + 1

\* line 657
CrankEventDiff(crank_event, last) == Mask16(crank_event - last)

\* line 667
CrankReasonable(rev_diff) == rev_diff < SuspiciousCrankRevs

\* lines 676-678: round((rev_diff / (event_diff / 1024.0)) * 60, 1), in
\* tenths: (rev_diff * 600 * 2^10) / event_diff
RoundedCadence(rev_diff, event_diff) ==
    RoundScaled(rev_diff * 600, event_diff, 10)

\* line 679: cadence > 0 on the unrounded value; event_diff > 0 here
CadencePositive(rev_diff) == rev_diff > 0

\* lines 682-683
AdvanceCrank(s, crank_revs, crank_event) ==
    [s EXCEPT !.last_crank_rev = crank_revs, !.last_crank_event = crank_event]

NoCrank == [path |-> "absent", event_diff |-> None, rev_diff |-> None,
            revs |-> None, event |-> None, offset |-> None]

CrankOut(s, exit, activity, path, revs, event, event_diff, rev_diff, offset) ==
    [s |-> s, exit |-> exit, activity |-> activity,
     c |-> [path |-> path, event_diff |-> event_diff, rev_diff |-> rev_diff,
            revs |-> revs, event |-> event, offset |-> Some(offset)]]

\* lines 667-669
CountRotations(s, rev_diff) ==
    IF CrankReasonable(rev_diff)
    THEN [s EXCEPT !.data.daily_crank_rotations = @ + rev_diff,
                   !.data.total_crank_rotations = @ + rev_diff]
    ELSE s

\* lines 666-683
CrankDeltaApplied(s, crank_revs, crank_event, event_diff, rev_diff, offset) ==
    CrankOut(AdvanceCrank([CountRotations(s, rev_diff) EXCEPT
                             !.data.cadence =
                                 RoundedCadence(rev_diff, event_diff)],
                          crank_revs, crank_event),
             "next", CadencePositive(rev_diff),
             IF CrankReasonable(rev_diff) THEN "applied" ELSE "suspicious",
             Some(crank_revs), Some(crank_event), Some(event_diff),
             Some(rev_diff), offset)

\* lines 658-683
CrankTimed(s, crank_revs, crank_event, event_diff, offset) ==
    IF event_diff > 0
    THEN CrankDeltaApplied(s, crank_revs, crank_event, event_diff,
                           CrankRevDiff(crank_revs, s.last_crank_rev), offset)
    ELSE CrankOut(AdvanceCrank(s, crank_revs, crank_event), "next", FALSE,
                  "duplicate", Some(crank_revs), Some(crank_event),
                  Some(event_diff), None, offset)

\* lines 656-683
CrankUnpacked(s, crank_revs, crank_event, offset) ==
    IF s.last_crank_event # 0
    THEN CrankTimed(s, crank_revs, crank_event,
                    CrankEventDiff(crank_event, s.last_crank_event), offset)
    ELSE CrankOut(AdvanceCrank(s, crank_revs, crank_event), "next", FALSE,
                  "first", Some(crank_revs), Some(crank_event), None, None,
                  offset)

\* lines 654-683; struct.unpack_from("<HH", data, offset), offset 0-based
CrankBlock(s, dat, offset) ==
    IF UnpackFits(dat, offset, 4)
    THEN CrankUnpacked(s, LE16(dat, offset + 1), LE16(dat, offset + 3),
                       offset)
    ELSE CrankOut(s, "raise", FALSE, "raise", None, None, None, None, offset)

\* ------------------------------------------------------------- calories
\* lines 525-534
MetFor(speed) ==
    IF speed < 160 THEN MET_LIGHT
    ELSE IF speed < 190 THEN MET_MODERATE
    ELSE IF speed < 225 THEN MET_VIGOROUS
    ELSE IF speed < 257 THEN MET_VERY_VIGOROUS
    ELSE MET_RACING

\* lines 511-537: met * weight * (time_diff / 3600) * resistance / 100,
\* in kcal * 720000 with the weight in half kilograms
CalculateCalories(speed, time_diff, res, w) == MetFor(speed) * w * time_diff * res

\* ------------------------------------------------- activity and rollover
\* lines 687-688
MarkActive(s, t) ==
    [s EXCEPT !.last_active = Some(t), !.data.last_active = Some(t)]

\* lines 690-693
StartActivity(s) ==
    IF ~s.data.is_active
    THEN [s EXCEPT !.data.is_active = TRUE, !.reload_tasks = @ + 1]
    ELSE s

\* active time counted as one second per notification
AccrueActiveTimeFixedTick(s, t) ==
    IF IsNone(s.activity_start_time)
    THEN [s EXCEPT !.activity_start_time = Some(t),
                   !.last_activity_check = Some(t)]
    ELSE [s EXCEPT !.data.daily_active_time = @ + 1,
                   !.data.total_active_time = @ + 1,
                   !.last_activity_check = Some(t)]

\* lines 696-704
AccrueActiveTime(s, t) ==
    IF IsNone(s.activity_start_time)
    THEN [s EXCEPT !.activity_start_time = Some(t),
                   !.last_activity_check = Some(t)]
    ELSE [s EXCEPT
            !.data.daily_active_time = @ + (t - Val(s.last_activity_check)),
            !.data.total_active_time = @ + (t - Val(s.last_activity_check)),
            !.last_activity_check = Some(t)]

\* lines 706-711
AccrueCalories(s, w, res) ==
    IF s.data.speed > 0
    THEN [s EXCEPT
            !.data.daily_calories =
                @ + CalculateCalories(s.data.speed, CaloriesTickSeconds, res, w),
            !.data.total_calories =
                @ + CalculateCalories(s.data.speed, CaloriesTickSeconds, res, w)]
    ELSE s

\* lines 686-711
ActivityBlock(s, t, w, res) ==
    AccrueCalories(AccrueActiveTime(StartActivity(MarkActive(s, t)), t), w, res)

\* line 547
TimedOut(t, last_check) == t - last_check > ActivityTimeoutSeconds

\* lines 539-553
CheckActivityTimeout(s, t) ==
    IF IsNone(s.last_activity_check)
    THEN [s EXCEPT !.last_activity_check = Some(t)]
    ELSE IF TimedOut(t, Val(s.last_activity_check))
    THEN [s EXCEPT !.data.speed = 0, !.data.cadence = 0,
                   !.data.is_active = FALSE, !.activity_start_time = None]
    ELSE s

\* line 564; the attribute is read first, so None never reaches here
ResetDue(t, reset_time) == t > reset_time + DaySeconds

\* reset that misses the rotation counter
ZeroDailyButRotations(d) ==
    [d EXCEPT !.daily_distance = 0, !.daily_active_time = 0,
              !.daily_calories = 0]

\* lines 569-570
ZeroDaily(d) ==
    [d EXCEPT !.daily_distance = 0, !.daily_active_time = 0,
              !.daily_calories = 0, !.daily_crank_rotations = 0]

\* lines 555-574, for a set _daily_reset_time
\* a rollover that clears the lifetime counters and keeps the daily ones
CheckDailyResetLifetime(s, t) ==
    IF ResetDue(t, Val(s.daily_reset_time))
    THEN [s EXCEPT !.data.distance = 0, !.data.total_active_time = 0,
                   !.data.total_calories = 0,
                   !.data.total_crank_rotations = 0,
                   !.daily_reset_time = Some(StartOfLocalDay(t)),
                   !.save_tasks = @ + 1]
    ELSE s

CheckDailyReset(s, t) ==
    IF ResetDue(t, Val(s.daily_reset_time))
    THEN [s EXCEPT !.data = ZeroDaily(@),
                   !.daily_reset_time = Some(StartOfLocalDay(t)),
                   !.save_tasks = @ + 1]
    ELSE s

\* lines 719-721
SaveIfChanged(s) ==
    IF Some(s.data) # s.last_saved_daily_values
    THEN [s EXCEPT !.last_saved_daily_values = Some(s.data),
                   !.save_tasks = @ + 1]
    ELSE s

\* lines 716-721
PublishAndSave(s) == SaveIfChanged([s EXCEPT !.published = Some(s.data)])

\* -------------------------------------------------- notification handler
\* lines 606-608
WheelRevPresent(dat) == dat[1] % 2 = 1
CrankRevPresent(dat) == (dat[1] \div 2) % 2 = 1

\* crank fields read where they follow a wheel field, present or not
CrankOffsetAfterWheel(dat) == 7

\* lines 609 and 652: offset = 1, advanced by 6 past the wheel fields
CrankOffset(dat) == IF WheelRevPresent(dat) THEN 7 ELSE 1

\* what a handler call did: the coordinator after it, how it ended ("done":
\* line 721 reached, "return": line 637, "raise": an exception caught at
\* line 722), the branches of both blocks, and whether activity was
\* detected, the inactivity timeout fired, the daily rollover fired
HandleOut(s, exit, w, c, activity, timeout, reset) ==
    [s |-> s, exit |-> exit, w |-> w, c |-> c, activity |-> activity,
     timeout |-> timeout, reset |-> reset]

\* the timeout branch of lines 546-553 is taken by this call
TimeoutFires(s, activity, t) ==
    /\ ~activity
    /\ ~IsNone(s.last_activity_check)
    /\ TimedOut(t, Val(s.last_activity_check))

\* lines 715-721; reading an unset _daily_reset_time raises at line 558
Rollover(s, w, c, activity, timeout, t) ==
    IF IsNone(s.daily_reset_time)
    THEN HandleOut(s, "raise", w, c, activity, timeout, FALSE)
    ELSE HandleOut(PublishAndSave(CheckDailyReset(s, t)), "done", w, c,
                   activity, timeout, ResetDue(t, Val(s.daily_reset_time)))

\* lines 685-721
Activity(s, w, c, activity, t, wt, res) ==
    Rollover(IF activity THEN ActivityBlock(s, t, wt, res)
             ELSE CheckActivityTimeout(s, t),
             w, c, activity, TimeoutFires(s, activity, t), t)

\* lines 654-721, cb: the outcome of the crank block
AfterCrank(wb, cb, t, wt, res) ==
    IF cb.exit = "next"
    THEN Activity(cb.s, wb.w, cb.c, wb.activity \/ cb.activity, t, wt, res)
    ELSE HandleOut(cb.s, cb.exit, wb.w, cb.c, wb.activity, FALSE, FALSE)

NoCrankOut(s) == [s |-> s, exit |-> "next", activity |-> FALSE, c |-> NoCrank]
NoWheelOut(s) == [s |-> s, exit |-> "next", activity |-> FALSE, w |-> NoWheel]

\* lines 614-721, wb: the outcome of the wheel block
AfterWheel(wb, dat, t, wt, res) ==
    IF wb.exit = "next"
    THEN AfterCrank(wb,
                    IF CrankRevPresent(dat)
                    THEN CrankBlock(wb.s, dat, CrankOffset(dat))
                    ELSE NoCrankOut(wb.s),
                    t, wt, res)
    ELSE HandleOut(wb.s, wb.exit, wb.w, NoCrank, FALSE, FALSE, FALSE)

\* lines 600-723.  s: coordinator fields before the call, dat: the
\* notification bytes, t: dt_util.now(), wt and res: weight and resistance.
\* data[0] of an empty buffer raises at line 606.
Handle(s, dat, t, wt, res) ==
    IF Len(dat) = 0
    THEN HandleOut(s, "raise", NoWheel, NoCrank, FALSE, FALSE, FALSE)
    ELSE AfterWheel(IF WheelRevPresent(dat) THEN WheelBlock(s, dat)
                    ELSE NoWheelOut(s),
                    dat, t, wt, res)

\* ----------------------------------------------------------- environment
\* values a CSC sensor can report
WheelRevValues == {U32(0, 5), U32(0, 1006), U32(65535, 65530)}
WheelEventValues == {0, 1024, 1536}
CrankRevValues == {4, 104, 65530}
CrankEventValues == {0, 1024, 1536}
TickValues == {1, 4}
WeightValues == {20, DEFAULT_WEIGHT}
ResistanceValues == {0, DEFAULT_RESISTANCE}
StartClock == 86397
RideSeconds == 2
AttemptIds == {1, 2}
SilenceSeconds == 5

Bytes16(v) == <<v % Pow2_8, v \div Pow2_8>>
Bytes32(v) == Bytes16(v.lo) \o Bytes16(v.hi)

\* a well-formed CSC measurement for the given flags
Encode(flags, wr, we, cr, ce) ==
    <<flags>>
    \o (IF flags % 2 = 1 THEN Bytes32(wr) \o Bytes16(we) ELSE <<>>)
    \o (IF (flags \div 2) % 2 = 1 THEN Bytes16(cr) \o Bytes16(ce) ELSE <<>>)

\* a frame cut short by k bytes
Truncate(f, k) == SubSeq(f, 1, Len(f) - k)

\* a ride that starts at revolution 0 and event time 0 and has made ten
\* revolutions one second (1024 ticks) later
RideStart == Encode(1, U32(0, 0), 0, 0, 0)
RideOneSecond == Encode(1, U32(0, 10), 1024, 0, 0)

WheelFrames == {Encode(1, wr, we, 0, 0) : wr \in WheelRevValues,
                                          we \in WheelEventValues}
               \cup {RideStart, RideOneSecond}
CrankFrames == {Encode(2, Zero32, 0, cr, ce) : cr \in CrankRevValues,
                                               ce \in CrankEventValues}

\* frames with both fields, a ride seen by both sensors: a first sample, a
\* wrapped pair of counters, a wheel jump, a standstill and a zero timestamp
BothFrames ==
    {Encode(3, U32(65535, 65530), 1024, 65530, 1024),
     Encode(3, U32(65535, 65530), 1536, 65530, 1536),
     Encode(3, U32(0, 5), 1024, 4, 1024),
     Encode(3, U32(0, 5), 1536, 4, 1536),
     Encode(3, U32(0, 1006), 1536, 4, 1536),
     Encode(3, U32(0, 5), 1536, 104, 1536),
     Encode(3, U32(0, 5), 0, 4, 0)}

\* an empty buffer, wheel fields cut short, crank fields cut short
Malformed == {<<>>,
              Truncate(Encode(1, U32(0, 5), 1536, 0, 0), 1),
              Truncate(Encode(3, U32(0, 5), 1024, 4, 1024), 3)}

Frames == BothFrames \cup Malformed

\* a sensor that sends its wheel and crank data in separate notifications
\* and, now and then, in one: a wheel counter wrapping over 63.5 s, a crank
\* counter wrapping over half a second, and frames with both fields whose
\* wheel event time stands still
MixedFrames ==
    {Encode(1, U32(65535, 65530), 1536, 0, 0),
     Encode(1, U32(0, 5), 1024, 0, 0),
     Encode(2, Zero32, 0, 65530, 1024),
     Encode(2, Zero32, 0, 4, 1536),
     Encode(3, U32(0, 5), 1024, 65530, 1024),
     Encode(3, U32(0, 5), 1024, 4, 1536)}

NoObs(op) == [op |-> op, frame |-> <<>>, exit |-> "done", w |-> NoWheel,
              c |-> NoCrank, activity |-> FALSE, timeout |-> FALSE,
              reset |-> FALSE]

\* ----------------------------------------------------------- persistence
\* now.date().isoformat(): the local calendar day
IsoDate(t) == t \div DaySeconds

\* datetime.isoformat() and dt_util.parse_datetime(): a date and a time of day
IsoFormat(t) == [date |-> t \div DaySeconds, time |-> t % DaySeconds]
ParseDatetime(iso) == iso.date * DaySeconds + iso.time

\* a dictionary whose daily distance is taken from the lifetime distance
PersistentDataMixed(d, reset_time, t) ==
    [daily_values |->
         [date |-> IsoDate(t),
          values |-> [daily_distance |-> d.distance,
                      daily_active_time |-> d.daily_active_time,
                      daily_calories |-> d.daily_calories,
                      daily_crank_rotations |-> d.daily_crank_rotations]],
     last_daily_reset |-> IsoFormat(reset_time),
     total_active_time |-> d.total_active_time,
     total_crank_rotations |-> d.total_crank_rotations,
     distance |-> d.distance,
     total_calories |-> d.total_calories]

\* lines 384-401: the dictionary handed to store.async_save
PersistentData(d, reset_time, t) ==
    [daily_values |->
         [date |-> IsoDate(t),
          values |-> [daily_distance |-> d.daily_distance,
                      daily_active_time |-> d.daily_active_time,
                      daily_calories |-> d.daily_calories,
                      daily_crank_rotations |-> d.daily_crank_rotations]],
     last_daily_reset |-> IsoFormat(reset_time),
     total_active_time |-> d.total_active_time,
     total_crank_rotations |-> d.total_crank_rotations,
     distance |-> d.distance,
     total_calories |-> d.total_calories]

\* lines 376-420: the store after _save_persistent_data.  Reading an unset
\* _daily_reset_time raises at line 396 and a failing store.async_save
\* raises at line 418; both are caught at line 419 and nothing is written.
SaveWrites(reset_time, write_ok) == ~IsNone(reset_time) /\ write_ok

SavePersistentData(st, d, reset_time, t, write_ok) ==
    IF SaveWrites(reset_time, write_ok)
    THEN Some(PersistentData(d, Val(reset_time), t))
    ELSE st

\* a flush whose failure reaches the caller
SaveExitPropagates(reset_time, write_ok) ==
    IF SaveWrites(reset_time, write_ok) THEN "done" ELSE "raise"

\* how _save_persistent_data ends: "done" after line 418, "caught" when the
\* except of line 419 logged the failure; it never raises
SaveExit(reset_time, write_ok) ==
    IF SaveWrites(reset_time, write_ok) THEN "done" ELSE "caught"

\* the memory a flush was built from, kept beside the store
Flushed(fl, d, reset_time, t, write_ok) ==
    IF SaveWrites(reset_time, write_ok)
    THEN Some([data |-> d, daily_reset_time |-> Val(reset_time), at |-> t])
    ELSE fl

\* lines 436-440
RestoreLifetime(d, sd) ==
    [d EXCEPT !.total_active_time = sd.total_active_time,
              !.total_crank_rotations = sd.total_crank_rotations,
              !.distance = sd.distance,
              !.total_calories = sd.total_calories]

\* daily values restored whatever the stored date
RestoreDailyAnyDate(d, sd, t) ==
    [d EXCEPT !.daily_distance = sd.daily_values.values.daily_distance,
              !.daily_active_time = sd.daily_values.values.daily_active_time,
              !.daily_calories = sd.daily_values.values.daily_calories,
              !.daily_crank_rotations =
                  sd.daily_values.values.daily_crank_rotations]

\* lines 443-463
RestoreDaily(d, sd, t) ==
    IF sd.daily_values.date = IsoDate(t)
    THEN [d EXCEPT
            !.daily_distance = sd.daily_values.values.daily_distance,
            !.daily_active_time = sd.daily_values.values.daily_active_time,
            !.daily_calories = sd.daily_values.values.daily_calories,
            !.daily_crank_rotations =
                sd.daily_values.values.daily_crank_rotations]
    ELSE ZeroDaily(d)

\* lines 422-489 for a store that could be read: the data and the reset time
\* after _restore_persistent_data
RestorePersistentData(d, st, t) ==
    IF IsNone(st)
    THEN [data |-> ZeroDaily(d),
          daily_reset_time |-> Some(StartOfLocalDay(t))]
    ELSE [data |-> RestoreDaily(RestoreLifetime(d, Val(st)), Val(st), t),
          daily_reset_time |->
              Some(ParseDatetime(Val(st).last_daily_reset))]

\* ------------------------------------------------------------------ Init
\* lines 281-348; _daily_reset_time is not assigned by __init__
Init ==
    /\ last_wheel_rev = Zero32
    /\ last_wheel_event = 0
    /\ last_crank_rev = 0
    /\ last_crank_event = 0
    /\ last_activity_check = None
    /\ last_active = None
    /\ activity_start_time = None
    /\ daily_reset_time = None
    /\ weight = DEFAULT_WEIGHT
    /\ resistance = DEFAULT_RESISTANCE
    /\ data = InitData
    /\ last_saved_daily_values = None
    /\ published = None
    /\ reload_tasks = 0
    /\ save_tasks = 0
    /\ now = StartClock
    /\ steps = 0
    /\ seen = [wheel |-> FALSE, crank |-> FALSE]
    /\ obs = NoObs("init")
    /\ connected = FALSE
    /\ client = FALSE
    /\ last_connection_attempt = None
    /\ snapshot_live = FALSE
    /\ stored = None
    /\ saves_run = 0
    /\ last_save = None
    /\ flushed = None
    /\ attempts = [a \in AttemptIds |-> "idle"]
    /\ reconnect_task = "none"
    /\ reconnect_alive = 0

\* --------------------------------------------------------------- actions
\* _notification_handler(_, data)
Notification(dat) ==
    /\ steps < MaxSteps
    /\ \E r \in {Handle(Cur, dat, now, weight, resistance)} :
           /\ Install(r.s)
           /\ obs' = [op |-> "notify", frame |-> dat, exit |-> r.exit,
                      w |-> r.w, c |-> r.c, activity |-> r.activity,
                      timeout |-> r.timeout, reset |-> r.reset]
           /\ seen' = [wheel |-> seen.wheel \/ ~IsNone(r.w.revs),
                       crank |-> seen.crank \/ ~IsNone(r.c.revs)]
           /\ snapshot_live' = IF r.exit = "done" THEN FALSE
                               ELSE snapshot_live
    /\ steps' = steps + 1
    /\ UNCHANGED <<weight, resistance, now, conn, store>>

\* async_setup at start-up: lines 771-785, the store read by line 430
AsyncSetup ==
    /\ steps = 0 \/ obs.op = "restart"
    /\ obs.op # "setup_failed"
    /\ IsNone(daily_reset_time)
    /\ \E r \in {RestorePersistentData(data, stored, now)} :
           /\ daily_reset_time' = r.daily_reset_time
           /\ data' = r.data
    /\ obs' = NoObs("setup")
    /\ UNCHANGED <<last_wheel_rev, last_wheel_event, last_crank_rev,
                   last_crank_event, last_activity_check, last_active,
                   activity_start_time, weight, resistance,
                   last_saved_daily_values, published, reload_tasks,
                   save_tasks, now, steps, seen, conn, snapshot_live, store>>

\* async_setup when store.async_load raises: the except of line 488 logs,
\* lines 778-782 find no value that is None
AsyncSetupLoadFails ==
    /\ steps = 0 \/ obs.op = "restart"
    /\ obs.op # "setup_failed"
    /\ IsNone(daily_reset_time)
    /\ obs' = NoObs("setup_failed")
    /\ UNCHANGED <<coord, weight, resistance, now, steps, seen, conn,
                   snapshot_live, store>>

\* weight.setter
SetWeight(v) ==
    /\ steps < MaxSteps
    /\ v # weight
    /\ weight' = v
    /\ steps' = steps + 1
    /\ obs' = NoObs("set_weight")
    /\ UNCHANGED <<coord, resistance, now, seen, conn, snapshot_live, store>>

\* resistance.setter
SetResistance(v) ==
    /\ steps < MaxSteps
    /\ v # resistance
    /\ resistance' = v
    /\ steps' = steps + 1
    /\ obs' = NoObs("set_resistance")
    /\ UNCHANGED <<coord, weight, now, seen, conn, snapshot_live, store>>

\* _handle_disconnection(client): lines 884-889.  The test of lines 892-893
\* reads _last_activity_time and _activity_timeout, which __init__ never
\* assigns, so no reconnect task is created and the fields below are all
\* the callback changes.
HandleDisconnection ==
    /\ steps < MaxSteps
    /\ data' = [data EXCEPT !.is_connected = FALSE, !.is_active = FALSE]
    /\ published' = Some(data')
    /\ snapshot_live' = FALSE
    /\ connected' = FALSE
    /\ steps' = steps + 1
    /\ obs' = NoObs("disconnect")
    /\ UNCHANGED <<last_wheel_rev, last_wheel_event, last_crank_rev,
                   last_crank_event, last_activity_check, last_active,
                   activity_start_time, daily_reset_time, weight, resistance,
                   last_saved_daily_values, reload_tasks, save_tasks, now,
                   seen, client, last_connection_attempt, link, store>>

\* a connection attempt that sets the flag and leaves the snapshot field
AsyncConnectFlagOnly(d, connect_ok) == d

\* lines 810-875 entered with the force flag set and _connected False, the
\* connection succeeding (connect_ok) or raising; the data after it
AsyncConnect(d, connect_ok) == [d EXCEPT !.is_connected = connect_ok]

\* force_reconnect(): lines 725-749.  Lines 730-740 drop the connection,
\* _async_connect makes one attempt, line 749 publishes the dict _data
\* itself.
ForceReconnect(connect_ok) ==
    /\ steps < MaxSteps
    /\ data' = AsyncConnect([data EXCEPT !.is_connected = FALSE], connect_ok)
    /\ connected' = connect_ok
    /\ client' = connect_ok
    /\ last_connection_attempt' = Some(now)
    /\ published' = Some(data')
    /\ snapshot_live' = TRUE
    /\ steps' = steps + 1
    /\ obs' = [NoObs("reconnect") EXCEPT !.exit =
                  IF connect_ok THEN "done" ELSE "raise"]
    /\ UNCHANGED <<last_wheel_rev, last_wheel_event, last_crank_rev,
                   last_crank_event, last_activity_check, last_active,
                   activity_start_time, daily_reset_time, weight, resistance,
                   last_saved_daily_values, reload_tasks, save_tasks, now,
                   seen, link, store>>

\* ------------------------------------------- connecting, await by await
RetryIntervalSeconds == 60
ReconnectSleepSeconds == 5

\* a connection lock that is never held
LockFreeAlways(att) == TRUE

\* _connection_lock (lines 312, 827): free while no caller is inside it
LockFree(att) == \A a \in AttemptIds : att[a] # "connecting"

\* line 894: _reconnect_task is None or _reconnect_task.done()
MayCreateReconnect(task) == task \in {"none", "done"}

\* lines 814-817 with the force flag clear: the retry interval has not
\* elapsed since the last attempt
RetryTooSoon(t, last) ==
    ~IsNone(last) /\ t - Val(last) < RetryIntervalSeconds

\* force_reconnect() up to its first wait: lines 730-740 drop the
\* connection, lines 812-826 of _async_connect record the attempt, and the
\* caller waits for the connection lock of line 827
ForceReconnectBegin(a) ==
    /\ steps < MaxSteps
    /\ attempts[a] = "idle"
    /\ connected' = FALSE
    /\ data' = [data EXCEPT !.is_connected = FALSE]
    /\ client' = FALSE
    /\ last_connection_attempt' = Some(now)
    /\ attempts' = [attempts EXCEPT ![a] = "waiting"]
    /\ steps' = steps + 1
    /\ obs' = NoObs("reconnect_begin")
    /\ UNCHANGED <<last_wheel_rev, last_wheel_event, last_crank_rev,
                   last_crank_event, last_activity_check, last_active,
                   activity_start_time, daily_reset_time, weight, resistance,
                   last_saved_daily_values, published, reload_tasks,
                   save_tasks, now, seen, reconnect_task, reconnect_alive,
                   snapshot_live, store>>

\* the caller gets the lock: lines 827-843.  Connected by now, it returns
\* at line 829 and force_reconnect publishes _data (line 749); otherwise it
\* creates the client and waits for connect()
ConnectLocked(a) ==
    /\ steps < MaxSteps
    /\ attempts[a] = "waiting"
    /\ LockFree(attempts)
    /\ IF connected
       THEN /\ attempts' = [attempts EXCEPT ![a] = "idle"]
            /\ published' = Some(data)
            /\ snapshot_live' = TRUE
            /\ UNCHANGED client
       ELSE /\ attempts' = [attempts EXCEPT ![a] = "connecting"]
            /\ client' = TRUE
            /\ UNCHANGED <<published, snapshot_live>>
    /\ steps' = steps + 1
    /\ obs' = NoObs("connect_locked")
    /\ UNCHANGED <<last_wheel_rev, last_wheel_event, last_crank_rev,
                   last_crank_event, last_activity_check, last_active,
                   activity_start_time, daily_reset_time, weight, resistance,
                   data, last_saved_daily_values, reload_tasks, save_tasks,
                   now, seen, connected, last_connection_attempt,
                   reconnect_task, reconnect_alive, store>>

\* connect() has returned and the rest of the attempt runs with the client
\* still in place: lines 845-870
ConnectSucceeds(ok, cl) == ok /\ cl

\* connect() returns or raises: lines 845-875, then line 749.  After a
\* connect that succeeded lines 846-847 set both flags; a _client that
\* another force_reconnect has set to None meanwhile makes start_notify
\* raise, and the except of line 873 cleans up as after a failed connect
ConnectEnd(a, ok) ==
    /\ steps < MaxSteps
    /\ attempts[a] = "connecting"
    /\ connected' = ConnectSucceeds(ok, client)
    /\ data' = AsyncConnect(data, ConnectSucceeds(ok, client))
    /\ client' = ConnectSucceeds(ok, client)
    /\ attempts' = [attempts EXCEPT ![a] = "idle"]
    /\ published' = Some(data')
    /\ snapshot_live' = TRUE
    /\ steps' = steps + 1
    /\ obs' = [NoObs("connect_end") EXCEPT !.exit =
                  IF ConnectSucceeds(ok, client) THEN "done" ELSE "raise"]
    /\ UNCHANGED <<last_wheel_rev, last_wheel_event, last_crank_rev,
                   last_crank_event, last_activity_check, last_active,
                   activity_start_time, daily_reset_time, weight, resistance,
                   last_saved_daily_values, reload_tasks, save_tasks, now,
                   seen, last_connection_attempt, reconnect_task,
                   reconnect_alive, store>>

\* lines 894-895 taken alone: a task for _async_handle_reconnect is created
\* when none is alive.  In _handle_disconnection the test of lines 892-893
\* raises before them (see HandleDisconnection), so this is the loop
\* started by any other caller on a coordinator that is not connected.
CreateReconnectTask ==
    /\ steps < MaxSteps
    /\ ~connected
    /\ MayCreateReconnect(reconnect_task)
    /\ reconnect_task' = "running"
    /\ reconnect_alive' = reconnect_alive + 1
    /\ steps' = steps + 1
    /\ obs' = NoObs("reconnect_task")
    /\ UNCHANGED <<coord, weight, resistance, now, seen, connected, client,
                   last_connection_attempt, attempts, snapshot_live, store>>

\* one iteration of the loop of _async_handle_reconnect: lines 904-913.
\* Connected, the loop ends.  Otherwise _async_connect either returns at
\* line 817, the retry interval not having elapsed, and the loop goes
\* round at once (the sleep of line 913 is in the except branch only); or
\* it makes an attempt under the lock, which connects and ends the loop,
\* or raises and is followed by the sleep.
ReconnectIteration(ok) ==
    /\ steps < MaxSteps
    /\ reconnect_task = "running"
    /\ IF connected
       THEN /\ ok
            /\ reconnect_task' = "done"
            /\ reconnect_alive' = reconnect_alive - 1
            /\ obs' = NoObs("reconnect_exit")
            /\ UNCHANGED <<connected, client, last_connection_attempt,
                           data>>
       ELSE IF RetryTooSoon(now, last_connection_attempt)
       THEN /\ ok
            /\ obs' = [NoObs("reconnect_iter") EXCEPT !.exit = "return"]
            /\ UNCHANGED <<connected, client, last_connection_attempt,
                           data, reconnect_task, reconnect_alive>>
       ELSE /\ LockFree(attempts)
            /\ last_connection_attempt' = Some(now)
            /\ connected' = ok
            /\ client' = ok
            /\ data' = AsyncConnect(data, ok)
            /\ reconnect_task' = IF ok THEN "done" ELSE "sleeping"
            /\ reconnect_alive' = IF ok THEN reconnect_alive - 1
                                  ELSE reconnect_alive
            /\ obs' = [NoObs("reconnect_iter") EXCEPT !.exit =
                          IF ok THEN "done" ELSE "raise"]
    /\ steps' = steps + 1
    /\ UNCHANGED <<last_wheel_rev, last_wheel_event, last_crank_rev,
                   last_crank_event, last_activity_check, last_active,
                   activity_start_time, daily_reset_time, weight, resistance,
                   last_saved_daily_values, published, reload_tasks,
                   save_tasks, now, seen, attempts, snapshot_live, store>>

\* the sleep of line 913 is over
ReconnectWakes ==
    /\ reconnect_task = "sleeping"
    /\ now >= Val(last_connection_attempt) + ReconnectSleepSeconds
    /\ reconnect_task' = "running"
    /\ obs' = NoObs("reconnect_wake")
    /\ UNCHANGED <<coord, weight, resistance, now, steps, seen, connected,
                   client, last_connection_attempt, attempts,
                   reconnect_alive, snapshot_live, store>>

\* the periodic flush is due: line 962
SaveDue(t, ls) == IsNone(ls) \/ t - Val(ls) > 300

\* _async_update_data(): lines 950-969, the coordinator's 30 s poll, whose
\* result becomes coordinator.data.  Not connected, line 953 reads
\* _last_activity_time or _activity_timeout, which __init__ never assigns,
\* and the except of line 967 returns _data; connected, the periodic flush
\* runs when due.
UpdateData(write_ok) ==
    /\ IF connected /\ SaveDue(now, last_save)
       THEN /\ stored' = SavePersistentData(stored, data, daily_reset_time,
                                            now, write_ok)
            /\ flushed' = Flushed(flushed, data, daily_reset_time, now,
                                  write_ok)
            /\ last_save' = Some(now)
            /\ obs' = [NoObs("poll_save") EXCEPT !.exit =
                          SaveExit(daily_reset_time, write_ok)]
       ELSE /\ write_ok
            /\ obs' = NoObs("poll")
            /\ UNCHANGED <<stored, last_save, flushed>>
    /\ published' = Some(data)
    /\ snapshot_live' = TRUE
    /\ UNCHANGED <<last_wheel_rev, last_wheel_event, last_crank_rev,
                   last_crank_event, last_activity_check, last_active,
                   activity_start_time, daily_reset_time, weight, resistance,
                   data, last_saved_daily_values, reload_tasks, save_tasks,
                   now, seen, conn, saves_run>>

\* one poll among the operations counted by steps
AsyncUpdateData(write_ok) ==
    /\ steps < MaxSteps
    /\ steps' = steps + 1
    /\ UpdateData(write_ok)

\* the poll as the coordinator's timer keeps running it, every 30 s for as
\* long as the entry is loaded (line 293)
PeriodicUpdate(write_ok) ==
    /\ UpdateData(write_ok)
    /\ UNCHANGED steps

\* a task created for _save_persistent_data (lines 572 and 721) runs
RunSaveTask(write_ok) ==
    /\ steps < MaxSteps
    /\ saves_run < save_tasks
    /\ stored' = SavePersistentData(stored, data, daily_reset_time, now,
                                    write_ok)
    /\ flushed' = Flushed(flushed, data, daily_reset_time, now, write_ok)
    /\ saves_run' = saves_run + 1
    /\ steps' = steps + 1
    /\ obs' = [NoObs("save") EXCEPT !.exit =
                  SaveExit(daily_reset_time, write_ok)]
    /\ UNCHANGED <<coord, weight, resistance, now, seen, conn,
                   snapshot_live, last_save>>

\* the host restarts: a new coordinator is constructed (lines 281-348), the
\* store and the clock stay
Restart ==
    /\ steps < MaxSteps
    /\ last_wheel_rev' = Zero32
    /\ last_wheel_event' = 0
    /\ last_crank_rev' = 0
    /\ last_crank_event' = 0
    /\ last_activity_check' = None
    /\ last_active' = None
    /\ activity_start_time' = None
    /\ daily_reset_time' = None
    /\ weight' = DEFAULT_WEIGHT
    /\ resistance' = DEFAULT_RESISTANCE
    /\ data' = InitData
    /\ last_saved_daily_values' = None
    /\ published' = None
    /\ reload_tasks' = 0
    /\ save_tasks' = 0
    /\ saves_run' = 0
    /\ last_save' = None
    /\ connected' = FALSE
    /\ client' = FALSE
    /\ last_connection_attempt' = None
    /\ attempts' = [a \in AttemptIds |-> "idle"]
    /\ reconnect_task' = "none"
    /\ reconnect_alive' = 0
    /\ snapshot_live' = FALSE
    /\ seen' = [wheel |-> FALSE, crank |-> FALSE]
    /\ steps' = steps + 1
    /\ obs' = NoObs("restart")
    /\ UNCHANGED <<stored, flushed, now>>

\* async_config_entry_first_refresh(): lines 897-900, what async_setup_entry
\* (__init__.py:34) runs on the new coordinator.  _restore_sensor_values
\* finds nothing, its store being written by _save_sensor_values only, which
\* nothing calls; the first _async_update_data returns _data without
\* connecting, and that dict becomes coordinator.data.
AsyncConfigEntryFirstRefresh ==
    /\ obs.op \in {"init", "restart"}
    /\ published' = Some(data)
    /\ snapshot_live' = TRUE
    /\ obs' = NoObs("first_refresh")
    /\ UNCHANGED <<last_wheel_rev, last_wheel_event, last_crank_rev,
                   last_crank_event, last_activity_check, last_active,
                   activity_start_time, daily_reset_time, weight, resistance,
                   data, last_saved_daily_values, reload_tasks, save_tasks,
                   now, steps, seen, conn, store>>

\* the wall clock runs on, second by second, whether or not anything is
\* received; it is read by notifications, which arrive during the ride
\* only, and is followed until SilenceSeconds after the ride, later seconds
\* passing without being counted
ClockAdvances ==
    /\ now' = IF now < StartClock + RideSeconds + SilenceSeconds
              THEN now + 1 ELSE now
    /\ obs' = NoObs("clock")
    /\ UNCHANGED <<coord, weight, resistance, steps, seen, conn,
                   snapshot_live, store>>

\* the wall clock advances between two callbacks
Tick(d) ==
    /\ steps < MaxSteps
    /\ now' = now + d
    /\ steps' = steps + 1
    /\ obs' = NoObs("tick")
    /\ UNCHANGED <<coord, weight, resistance, seen, conn, snapshot_live,
                   store>>

Next ==
    \/ \E dat \in Frames : Notification(dat)
    \/ AsyncSetup
    \/ \E v \in WeightValues : SetWeight(v)
    \/ \E v \in ResistanceValues : SetResistance(v)
    \/ HandleDisconnection
    \/ \E d \in TickValues : Tick(d)

Spec == Init /\ [][Next]_vars

\* wheel-only notifications on a set-up coordinator
NextWheel ==
    \/ \E dat \in WheelFrames : Notification(dat)
    \/ AsyncSetup
    \/ \E d \in TickValues : Tick(d)

SpecWheel == Init /\ [][NextWheel]_vars

\* crank-only notifications
NextCrank ==
    \/ \E dat \in CrankFrames : Notification(dat)
    \/ AsyncSetup
    \/ \E d \in TickValues : Tick(d)

SpecCrank == Init /\ [][NextCrank]_vars

\* wheel-only, crank-only and combined notifications
NextMixed ==
    \/ \E dat \in MixedFrames : Notification(dat)
    \/ AsyncSetup
    \/ \E d \in TickValues : Tick(d)

SpecMixed == Init /\ [][NextMixed]_vars

\* a ride over a connection that is made, lost and made again: notifications
\* arrive only while connected, a wheel counter that wraps over 63.5 s and
\* a frame cut short in its crank fields
ConnFrames == {Encode(1, U32(65535, 65530), 1536, 0, 0),
               Encode(1, U32(0, 5), 1024, 0, 0),
               Truncate(Encode(3, U32(0, 5), 1024, 4, 1024), 3)}

NextConn ==
    \/ \E dat \in ConnFrames : connected /\ Notification(dat)
    \/ AsyncSetup
    \/ \E ok \in BOOLEAN : ForceReconnect(ok)
    \/ connected /\ HandleDisconnection
    \/ \E ok \in BOOLEAN : AsyncUpdateData(ok)
    \/ \E d \in TickValues : Tick(d)

SpecConn == Init /\ [][NextConn]_vars

\* a ride whose counters are flushed to the store and read back after a
\* restart, the store failing now and then: a first wheel sample, a frame
\* with both fields and one cut short in its crank fields
StoreFrames == {Encode(1, U32(65535, 65530), 1536, 0, 0),
                Encode(3, U32(0, 5), 1024, 4, 1536),
                Truncate(Encode(3, U32(0, 5), 1024, 4, 1024), 3)}

NextStore ==
    \/ \E dat \in StoreFrames : Notification(dat)
    \/ AsyncSetup
    \/ AsyncSetupLoadFails
    \/ \E ok \in BOOLEAN : RunSaveTask(ok)
    \/ ForceReconnect(TRUE)
    \/ \E ok \in BOOLEAN : AsyncUpdateData(ok)
    \/ Restart
    \/ \E d \in TickValues : Tick(d)

SpecStore == Init /\ [][NextStore]_vars

\* the integration as async_setup_entry sets it up: the coordinator is
\* constructed and refreshed once, nothing calls async_setup, the
\* reconnect button connects and notifications arrive while connected
SetUp == obs.op # "init"

NextEntry ==
    \/ AsyncConfigEntryFirstRefresh
    \/ \E ok \in BOOLEAN : SetUp /\ ForceReconnect(ok)
    \/ \E dat \in ConnFrames : connected /\ Notification(dat)
    \/ connected /\ HandleDisconnection
    \/ \E ok \in BOOLEAN : SetUp /\ AsyncUpdateData(ok)
    \/ \E d \in TickValues : SetUp /\ Tick(d)

SpecEntry == Init /\ [][NextEntry]_vars

\* the connection seen await by await: two callers of force_reconnect, the
\* disconnection callback and the reconnect loop
NextLink ==
    \/ \E a \in AttemptIds : ForceReconnectBegin(a)
    \/ \E a \in AttemptIds : ConnectLocked(a)
    \/ \E a \in AttemptIds : \E ok \in BOOLEAN : ConnectEnd(a, ok)
    \/ connected /\ HandleDisconnection
    \/ CreateReconnectTask
    \/ \E ok \in BOOLEAN : ReconnectIteration(ok)
    \/ ReconnectWakes
    \/ \E d \in TickValues : Tick(d)

SpecLink == Init /\ [][NextLink]_vars

\* a ride of a few seconds after which the device stays silent, connected
\* or not, while the clock runs on and the coordinator keeps polling
SilentFrames == {Encode(1, U32(65535, 65530), 1536, 0, 0),
                 Encode(1, U32(0, 5), 1024, 0, 0),
                 Encode(2, Zero32, 0, 65530, 1024),
                 Encode(2, Zero32, 0, 4, 1536)}

Riding == now <= StartClock + RideSeconds

NextSilent ==
    \/ \E dat \in SilentFrames : Riding /\ Notification(dat)
    \/ AsyncSetup
    \/ HandleDisconnection
    \/ \E ok \in BOOLEAN : PeriodicUpdate(ok)
    \/ ClockAdvances

SpecSilent ==
    /\ Init
    /\ [][NextSilent]_vars
    /\ WF_vars(ClockAdvances)
    /\ WF_vars(\E ok \in BOOLEAN : PeriodicUpdate(ok))


\* ================================================================ claims
\* reference arithmetic, independent of the handler's branches
ModSub32(a, b) ==
    LET borrow == IF a.lo < b.lo THEN 1 ELSE 0
    IN  U32((a.hi - b.hi - borrow) % Pow2_16, (a.lo - b.lo) % Pow2_16)

ModSub16(a, b) == (a - b) % Pow2_16

\* the frame of the step carries complete wheel / crank fields
CarriesWheel(f) == Len(f) >= 7 /\ WheelRevPresent(f)
CrankAt(f) == IF WheelRevPresent(f) THEN 7 ELSE 1
CarriesCrank(f) ==
    /\ Len(f) >= 1
    /\ CrankRevPresent(f)
    /\ ~WheelRevPresent(f) \/ Len(f) >= 7
    /\ Len(f) >= CrankAt(f) + 4
FrameWheelRevs(f) == LE32(f, 2)
FrameWheelEvent(f) == LE16(f, 6)
FrameCrankRevs(f) == LE16(f, CrankAt(f) + 1)
FrameCrankEvent(f) == LE16(f, CrankAt(f) + 3)

Notified == obs.op = "notify"

LifetimeLeq(d, e) ==
    /\ d.distance <= e.distance
    /\ d.total_active_time <= e.total_active_time
    /\ d.total_calories <= e.total_calories
    /\ d.total_crank_rotations <= e.total_crank_rotations

DailyLeq(d, e) ==
    /\ d.daily_distance <= e.daily_distance
    /\ d.daily_active_time <= e.daily_active_time
    /\ d.daily_calories <= e.daily_calories
    /\ d.daily_crank_rotations <= e.daily_crank_rotations

DailyZero(d) ==
    /\ d.daily_distance = 0
    /\ d.daily_active_time = 0
    /\ d.daily_calories = 0
    /\ d.daily_crank_rotations = 0

DailySame(d, e) ==
    /\ d.daily_distance = e.daily_distance
    /\ d.daily_active_time = e.daily_active_time
    /\ d.daily_calories = e.daily_calories
    /\ d.daily_crank_rotations = e.daily_crank_rotations

LifetimeSame(d, e) ==
    /\ d.distance = e.distance
    /\ d.total_active_time = e.total_active_time
    /\ d.total_calories = e.total_calories
    /\ d.total_crank_rotations = e.total_crank_rotations

\* C1: over notifications of every kind, rollovers and weight / resistance
\* changes, no step lowers distance, total_active_time, total_calories or
\* total_crank_rotations.
C1_LifetimeNonDecreasing == [][LifetimeLeq(data, data')]_vars

\* every lifetime counter has grown
C1_Witness ==
    /\ data.distance > 0
    /\ data.total_active_time > 0
    /\ data.total_calories > 0
    /\ data.total_crank_rotations > 0

\* C2: the daily counters never decrease in a step, except in a handler call
\* whose daily rollover fires, and that call leaves all four at zero.
C2_DailyNonDecreasing ==
    [][IF obs'.op = "notify" /\ obs'.reset
       THEN DailyZero(data')
       ELSE DailyLeq(data, data')]_vars

\* a rollover fired after distance had been accumulated
C2_Witness ==
    /\ Notified
    /\ obs.reset
    /\ data.distance > 0
    /\ DailyZero(data)

\* C3: whenever the handler computes a wheel revolution delta it equals
\* (wheel_revs - last_wheel_rev) mod 2^32, is never negative, and
\* 4294967290 -> 5 gives 11.
C3_WheelRevDiffModulo ==
    [][(obs'.op = "notify" /\ ~IsNone(obs'.w.rev_diff)) =>
         LET d == Val(obs'.w.rev_diff)
             revs == FrameWheelRevs(obs'.frame)
         IN  /\ d = ModSub32(revs, last_wheel_rev)
             /\ d.hi >= 0 /\ d.lo >= 0
             /\ (last_wheel_rev = U32(65535, 65530) /\ revs = U32(0, 5))
                   => d = U32(0, 11)]_vars

\* the delta of a wrapped wheel counter was computed
C3_Witness ==
    /\ Notified
    /\ obs.w.rev_diff = Some(U32(0, 11))
    /\ last_wheel_rev = U32(0, 5)

\* C4: whenever the handler computes a crank revolution delta it equals
\* (crank_revs - last_crank_rev) mod 65536 and is never negative.
C4_CrankRevDiffModulo ==
    [][(obs'.op = "notify" /\ ~IsNone(obs'.c.rev_diff)) =>
         LET d == Val(obs'.c.rev_diff)
         IN  /\ d = ModSub16(FrameCrankRevs(obs'.frame), last_crank_rev)
             /\ d >= 0]_vars

\* the delta of a wrapped crank counter was computed
C4_Witness ==
    /\ Notified
    /\ ~IsNone(obs.c.rev_diff)
    /\ last_crank_rev = 4
    /\ Val(obs.c.rev_diff) = 10


\* the wheel / crank block went past the event-time test of this frame
WheelUpdateApplied(o) == o.w.path \in {"suspicious", "overspeed", "applied"}
CrankUpdateApplied(o) == o.c.path \in {"suspicious", "applied"}

\* C5: for a frame that is not the first to carry the field, the event-time
\* delta is (new - last) mod 65536; a timestamp numerically below the stored
\* one gives new - last + 65536 > 0 and the update is applied; the update is
\* skipped if and only if that delta is 0.
C5_EventDiffModulo ==
    [][obs'.op = "notify" =>
         /\ (seen.wheel /\ CarriesWheel(obs'.frame)) =>
              LET new == FrameWheelEvent(obs'.frame)
                  d == ModSub16(new, last_wheel_event)
              IN  /\ new < last_wheel_event =>
                        /\ d = new - last_wheel_event + Pow2_16
                        /\ d > 0
                        /\ obs'.w.event_diff = Some(d)
                        /\ WheelUpdateApplied(obs')
                  /\ ~WheelUpdateApplied(obs') <=> d = 0
         /\ (seen.crank /\ CarriesCrank(obs'.frame)) =>
              LET new == FrameCrankEvent(obs'.frame)
                  d == ModSub16(new, last_crank_event)
              IN  /\ new < last_crank_event =>
                        /\ d = new - last_crank_event + Pow2_16
                        /\ d > 0
                        /\ obs'.c.event_diff = Some(d)
                        /\ CrankUpdateApplied(obs')
                  /\ ~CrankUpdateApplied(obs') <=> d = 0]_vars

\* every field the frame carries has the timestamp stored from an earlier
\* notification
DuplicateOf(f, lwe, lce, sn) ==
    /\ Len(f) >= 1
    /\ WheelRevPresent(f) \/ CrankRevPresent(f)
    /\ WheelRevPresent(f) =>
          CarriesWheel(f) /\ sn.wheel /\ FrameWheelEvent(f) = lwe
    /\ CrankRevPresent(f) =>
          CarriesCrank(f) /\ sn.crank /\ FrameCrankEvent(f) = lce

DuplicateStep ==
    /\ obs'.op = "notify"
    /\ DuplicateOf(obs'.frame, last_wheel_event, last_crank_event, seen)

\* C6 as stated: a notification with the timestamps of the previous one
\* leaves every daily and total counter, distance and speed unchanged.
C6_DuplicateLeavesAll ==
    [][DuplicateStep =>
         /\ DailySame(data, data')
         /\ LifetimeSame(data, data')
         /\ data'.speed = data.speed]_vars

\* C6 amended: a notification with the timestamps of the previous one adds
\* nothing: the lifetime counters are unchanged, the daily counters are
\* unchanged unless the daily rollover fires in that call (then they are 0)
\* and speed is unchanged unless the inactivity timeout fires (then it is 0).
C6_DuplicateAddsNothing ==
    [][DuplicateStep =>
         /\ LifetimeSame(data, data')
         /\ IF obs'.reset THEN DailyZero(data') ELSE DailySame(data, data')
         /\ IF obs'.timeout THEN data'.speed = 0
            ELSE data'.speed = data.speed]_vars

\* a duplicate of both fields was handled after a ride had started
C6_Witness ==
    /\ Notified
    /\ obs.w.path = "duplicate"
    /\ obs.c.path = "duplicate"
    /\ data.distance > 0
    /\ data.total_crank_rotations > 0

\* the wheel delta of the step, taken from the frame and the stored counters
WheelJump(f, lwr, lwe) ==
    /\ lwe # 0
    /\ ModSub16(FrameWheelEvent(f), lwe) > 0
    /\ Gt32Small(ModSub32(FrameWheelRevs(f), lwr), SuspiciousWheelRevs)

\* C7: after a notification with wheel fields, last_wheel_rev and
\* last_wheel_event are the frame's raw values, whichever branch was taken;
\* a wheel delta above 1000 leaves distance, daily_distance and speed as
\* they were.
C7_WheelShadowAdvances ==
    [][(obs'.op = "notify" /\ CarriesWheel(obs'.frame)) =>
         /\ last_wheel_rev' = FrameWheelRevs(obs'.frame)
         /\ last_wheel_event' = FrameWheelEvent(obs'.frame)
         /\ WheelJump(obs'.frame, last_wheel_rev, last_wheel_event) =>
               /\ data'.distance = data.distance
               /\ data'.daily_distance = data.daily_distance
               /\ data'.speed = data.speed]_vars

\* a wheel jump was rejected while a speed was stored
C7_Witness ==
    /\ Notified
    /\ obs.w.path = "suspicious"
    /\ last_wheel_rev = U32(0, 1006)
    /\ data.speed > 0
    /\ data.daily_distance > 0

\* the crank delta of the step, for a frame whose event time advanced
CrankDelta(f, lcr) == ModSub16(FrameCrankRevs(f), lcr)
CrankAdvanced(f, lce) ==
    /\ CarriesCrank(f)
    /\ lce # 0
    /\ ModSub16(FrameCrankEvent(f), lce) > 0

\* C8: a crank frame with event_diff > 0 and a delta >= 100 leaves both
\* rotation counters unchanged and advances last_crank_rev and
\* last_crank_event; with a delta below 100 both counters grow by the delta.
C8_CrankRotations ==
    [][(obs'.op = "notify" /\ CrankAdvanced(obs'.frame, last_crank_event)) =>
         LET d == CrankDelta(obs'.frame, last_crank_rev)
         IN  IF d >= SuspiciousCrankRevs
             THEN /\ data'.daily_crank_rotations = data.daily_crank_rotations
                  /\ data'.total_crank_rotations = data.total_crank_rotations
                  /\ last_crank_rev' = FrameCrankRevs(obs'.frame)
                  /\ last_crank_event' = FrameCrankEvent(obs'.frame)
             ELSE /\ data'.daily_crank_rotations =
                         data.daily_crank_rotations + d
                  /\ data'.total_crank_rotations =
                         data.total_crank_rotations + d]_vars

\* C9: a crank delta rejected as suspicious (>= 100) does not set the
\* snapshot cadence.
C9_RejectedCadenceDiscarded ==
    [][(/\ obs'.op = "notify"
        /\ CrankAdvanced(obs'.frame, last_crank_event)
        /\ CrankDelta(obs'.frame, last_crank_rev) >= SuspiciousCrankRevs) =>
         data'.cadence = data.cadence]_vars

\* raw speed of the step above 100 km/h, from the frame and the stored
\* counters: rev_diff * 2.096 * 1024 * 3.6 / event_diff > 100, in lowest
\* terms rev_diff * 1207296 > 15625 * event_diff
OverSpeedFrame(f, lwr, lwe) ==
    /\ CarriesWheel(f)
    /\ lwe # 0
    /\ ModSub16(FrameWheelEvent(f), lwe) > 0
    /\ ~Gt32Small(ModSub32(FrameWheelRevs(f), lwr), SuspiciousWheelRevs)
    /\ ModSub32(FrameWheelRevs(f), lwr).lo * 1207296
          > 15625 * ModSub16(FrameWheelEvent(f), lwe)

OverSpeedStep ==
    /\ obs'.op = "notify"
    /\ OverSpeedFrame(obs'.frame, last_wheel_rev, last_wheel_event)

\* C10 as stated: a wheel frame whose raw speed exceeds 100 km/h leaves a
\* snapshot speed of exactly 100.0.
C10_SpeedClamped == [][OverSpeedStep => data'.speed = 10 * MaxSpeedKmh]_vars

\* C10 amended: a wheel frame whose raw speed exceeds 100 km/h is rejected,
\* not clamped: it adds no distance and the snapshot speed keeps its previous
\* value, or becomes 0.0 when the inactivity timeout fires in that call.
C10_SpeedRejected ==
    [][OverSpeedStep =>
         /\ data'.distance = data.distance
         /\ IF obs'.timeout THEN data'.speed = 0
            ELSE data'.speed = data.speed]_vars

\* a frame above 100 km/h was handled while a lower speed was stored
C10_Witness ==
    /\ Notified
    /\ obs.w.path = "overspeed"
    /\ data.speed > 0
    /\ data.speed < 10 * MaxSpeedKmh

\* a wheel delta is computed for the frame: the stored event time is not the
\* "no frame yet" value 0, the event time advanced, the delta is at most 1000
WheelDeltaApplied(f, lwr, lwe) ==
    /\ CarriesWheel(f)
    /\ lwe # 0
    /\ ModSub16(FrameWheelEvent(f), lwe) > 0
    /\ ~Gt32Small(ModSub32(FrameWheelRevs(f), lwr), SuspiciousWheelRevs)

\* rev_diff * wheel_circumference, in millimetres (km * 10^6)
ExpectedDistanceMm(f, lwr) == ModSub32(FrameWheelRevs(f), lwr).lo * 2096

WheelDeltaStep ==
    /\ obs'.op = "notify"
    /\ WheelDeltaApplied(obs'.frame, last_wheel_rev, last_wheel_event)

LaterWheelFrame(f, lwr, lwe, sn) ==
    /\ CarriesWheel(f)
    /\ sn.wheel
    /\ ModSub16(FrameWheelEvent(f), lwe) > 0
    /\ ~Gt32Small(ModSub32(FrameWheelRevs(f), lwr), SuspiciousWheelRevs)
    /\ ModSub32(FrameWheelRevs(f), lwr).lo * 1207296
          <= 15625 * ModSub16(FrameWheelEvent(f), lwe)

\* C12: only the first wheel frame ever handled is exempt from the delta
\* computation: every later wheel frame with event_diff > 0, rev_diff <= 1000
\* and a speed within range adds its distance, also when the frame before it
\* had the event timestamp 0.
C12_OnlyFirstFrameExempt ==
    [][(/\ obs'.op = "notify"
        /\ LaterWheelFrame(obs'.frame, last_wheel_rev, last_wheel_event,
                           seen)) =>
         /\ obs'.w.path = "applied"
         /\ data'.distance =
               data.distance + ExpectedDistanceMm(obs'.frame, last_wheel_rev)
      ]_vars

\* C13: from the initial state, a first wheel frame (revolutions 0, event
\* time 0) followed by a frame with wheel_revs = 10 and wheel_event = 1024
\* gives rev_diff = 10, a speed of about 75.46 km/h (75.5 once rounded to a
\* tenth) and 0.02096 km more daily_distance.
C13_EndToEnd ==
    [][(/\ obs.op = "notify" /\ obs.frame = RideStart
        /\ obs'.op = "notify" /\ obs'.frame = RideOneSecond
        /\ last_wheel_rev = Zero32) =>
         /\ obs'.w.rev_diff = Some(U32(0, 10))
         /\ data'.speed \in {754, 755}
         /\ data'.daily_distance = data.daily_distance + 20960]_vars

\* the notification carries every field its flags announce
Complete(f) ==
    /\ Len(f) >= 1
    /\ WheelRevPresent(f) => CarriesWheel(f)
    /\ CrankRevPresent(f) => CarriesCrank(f)

\* speed, cadence and the activity state after an inactivity timeout
Idle(d, start) ==
    /\ d.speed = 0
    /\ d.cadence = 0
    /\ ~d.is_active
    /\ IsNone(start)

\* C14: after an active notification at t0 (the stored last_active), a
\* handler call later than t0 + 3 s that detects no new activity leaves
\* speed = 0, cadence = 0, is_active = false and activity_start_time = none.
C14_ActivityTimeout ==
    [][(/\ obs'.op = "notify"
        /\ Complete(obs'.frame)
        /\ ~obs'.activity
        /\ ~IsNone(last_active)
        /\ now > Val(last_active) + ActivityTimeoutSeconds) =>
         Idle(data', activity_start_time')]_vars

\* C15: every handler call that detects no fresh activity runs the
\* inactivity check, whatever the notification holds: it starts the
\* measurement when last_activity_check is none and otherwise, more than 3 s
\* after last_activity_check, zeroes speed and cadence and clears is_active
\* and activity_start_time.
C15_TimeoutCheckedEveryCall ==
    [][(obs'.op = "notify" /\ Complete(obs'.frame) /\ ~obs'.activity) =>
         IF IsNone(last_activity_check)
         THEN last_activity_check' = Some(now)
         ELSE (now - Val(last_activity_check) > ActivityTimeoutSeconds) =>
                 Idle(data', activity_start_time')]_vars

\* now is more than 24 h past the stored reset time
RolloverDue(t, reset) == ~IsNone(reset) /\ t > Val(reset) + DaySeconds

\* C16: with daily_reset_time at local midnight of day D, the first handler
\* call whose now is later than D + 24 h zeroes the daily counters and moves
\* daily_reset_time to the start of the current local day; a call whose
\* daily_reset_time already is the start of the current day resets nothing.
C16_RolloverOnce ==
    [][(obs'.op = "notify" /\ Complete(obs'.frame)
          /\ ~IsNone(daily_reset_time)) =>
         /\ RolloverDue(now, daily_reset_time) =>
               /\ DailyZero(data')
               /\ daily_reset_time' = Some(StartOfLocalDay(now))
         /\ daily_reset_time = Some(StartOfLocalDay(now)) =>
               /\ DailyLeq(data, data')
               /\ daily_reset_time' = daily_reset_time]_vars

\* C17: the daily rollover check runs in every handler call, whatever the
\* notification holds: after the call daily_reset_time is never more than
\* 24 h behind now.
C17_RolloverCheckedEveryCall ==
    [][(obs'.op = "notify" /\ Complete(obs'.frame)
          /\ ~IsNone(daily_reset_time)) =>
         ~RolloverDue(now', daily_reset_time')]_vars

\* every field of the frame has an event time that advanced on the previous
\* frame's and the revolution count of the previous frame
Standstill(f, lwr, lwe, lcr, lce, sn) ==
    /\ Complete(f)
    /\ WheelRevPresent(f) \/ CrankRevPresent(f)
    /\ WheelRevPresent(f) =>
          /\ sn.wheel
          /\ ModSub16(FrameWheelEvent(f), lwe) > 0
          /\ FrameWheelRevs(f) = lwr
    /\ CrankRevPresent(f) =>
          /\ sn.crank
          /\ ModSub16(FrameCrankEvent(f), lce) > 0
          /\ FrameCrankRevs(f) = lcr

\* C18: a notification is active only if its wheel or crank data gave a
\* nonzero speed or cadence: a frame whose event time advanced while the
\* wheel and crank revolution counts did not change does not set is_active,
\* does not update last_active and adds no active time.
C18_StandstillNotActive ==
    [][(/\ obs'.op = "notify"
        /\ Standstill(obs'.frame, last_wheel_rev, last_wheel_event,
                      last_crank_rev, last_crank_event, seen)) =>
         /\ data'.is_active => data.is_active
         /\ last_active' = last_active
         /\ data'.last_active = data.last_active
         /\ data'.total_active_time = data.total_active_time
         /\ data'.daily_active_time <= data.daily_active_time]_vars

\* C19: whenever a handler call takes is_active from false to true it
\* records activity_start_time = now and schedules exactly one device-info
\* refresh; an active notification handled while is_active is already true
\* schedules none.
C19_ActivityStart ==
    [][obs'.op = "notify" =>
         /\ (~data.is_active /\ data'.is_active) =>
               /\ activity_start_time' = Some(now)
               /\ reload_tasks' = reload_tasks + 1
         /\ (data.is_active /\ obs'.activity) =>
               reload_tasks' = reload_tasks]_vars

\* a complete, active notification handled while the ride is active
RidingStep ==
    /\ obs'.op = "notify"
    /\ Complete(obs'.frame)
    /\ obs'.activity
    /\ data.is_active
    /\ ~IsNone(last_activity_check)

\* C20 as stated: while a ride is active, each active notification (one that
\* carries all its fields) adds the wall-clock seconds elapsed since
\* last_activity_check to daily_active_time and to total_active_time, and
\* sets last_activity_check to now.
C20_ActiveTimeElapsed ==
    [][RidingStep =>
         /\ data'.daily_active_time =
               data.daily_active_time + (now - Val(last_activity_check))
         /\ data'.total_active_time =
               data.total_active_time + (now - Val(last_activity_check))
         /\ last_activity_check' = Some(now)]_vars

\* C20 amended: while a ride is active, each active notification (one that
\* carries all its fields) adds the wall-clock seconds elapsed since
\* last_activity_check to total_active_time and to daily_active_time, and
\* sets last_activity_check to now; when the daily rollover fires in the
\* same call daily_active_time is 0 after it.
C20_ActiveTimeElapsedOrReset ==
    [][RidingStep =>
         /\ data'.daily_active_time =
               IF obs'.reset THEN 0
               ELSE data.daily_active_time + (now - Val(last_activity_check))
         /\ data'.total_active_time =
               data.total_active_time + (now - Val(last_activity_check))
         /\ last_activity_check' = Some(now)]_vars

\* two seconds of riding were measured by a call that ran to its end
C20_Witness ==
    /\ Notified
    /\ obs.activity
    /\ obs.exit = "done"
    /\ data.is_active
    /\ last_activity_check = Some(now)
    /\ data.total_active_time = 2
    /\ data.daily_active_time = 2

\* a crank frame with crank_revs = 4 handled while last_crank_rev = 65530,
\* with an event time that advanced
CrankWrapStep ==
    /\ obs'.op = "notify"
    /\ CrankAdvanced(obs'.frame, last_crank_event)
    /\ last_crank_rev = 65530
    /\ FrameCrankRevs(obs'.frame) = 4

\* C29 as stated: with last_crank_rev = 65530 and crank_revs = 4 the crank
\* revolution delta computed by the handler is 9.
C29_CrankWrapNine ==
    [][(CrankWrapStep /\ ~IsNone(obs'.c.rev_diff)) =>
         obs'.c.rev_diff = Some(9)]_vars

\* C29 amended: with last_crank_rev = 65530 and crank_revs = 4 the crank
\* revolution delta computed by the handler is 10, and 10 rotations are
\* counted.
C29_CrankWrapTen ==
    [][(CrankWrapStep /\ ~IsNone(obs'.c.rev_diff)) =>
         /\ obs'.c.rev_diff = Some(10)
         /\ data'.total_crank_rotations = data.total_crank_rotations + 10
      ]_vars

\* the wrapped delta was counted into the rotation totals
C29_Witness ==
    /\ Notified
    /\ obs.c.path = "applied"
    /\ obs.c.rev_diff = Some(10)
    /\ last_crank_rev = 4
    /\ data.total_crank_rotations >= 10
    /\ data.cadence > 0

\* MET of the calorie formula for a speed in tenths of km/h
MetOfSpeed(speed) ==
    IF speed < 160 THEN 4
    ELSE IF speed < 190 THEN 6
    ELSE IF speed < 225 THEN 8
    ELSE IF speed < 257 THEN 10
    ELSE 12

\* MET * weight_kg * (elapsed / 3600) * resistance / 100, in kcal * 720000
\* with the weight in half kilograms
FormulaCalories(speed, w, elapsed, res) == MetOfSpeed(speed) * w * elapsed * res

\* C21: an active notification handled with speed > 0 during a ride adds to
\* daily_calories and total_calories MET(speed) * weight * (elapsed / 3600) *
\* resistance / 100, elapsed being the seconds measured since the previous
\* activity check.
C21_CaloriesForElapsedTime ==
    [][(RidingStep /\ data'.speed > 0) =>
         LET add == FormulaCalories(data'.speed, weight,
                                    now - Val(last_activity_check),
                                    resistance)
         IN  /\ data'.total_calories = data.total_calories + add
             /\ data'.daily_calories =
                   IF obs'.reset THEN 0 ELSE data.daily_calories + add]_vars

\* C23: handling a malformed notification (an empty buffer, or one whose
\* flag byte announces wheel or crank fields that run past its end) leaves
\* the shadow counters, every daily and total counter, speed, cadence and
\* the activity fields as they were, also when only the crank fields are
\* cut short.
C23_MalformedLeavesState ==
    [][(obs'.op = "notify" /\ ~Complete(obs'.frame)) =>
         /\ last_wheel_rev' = last_wheel_rev
         /\ last_wheel_event' = last_wheel_event
         /\ last_crank_rev' = last_crank_rev
         /\ last_crank_event' = last_crank_event
         /\ data' = data
         /\ last_active' = last_active
         /\ activity_start_time' = activity_start_time]_vars

WheelOnly(f) == Complete(f) /\ WheelRevPresent(f) /\ ~CrankRevPresent(f)
CrankOnly(f) == Complete(f) /\ CrankRevPresent(f) /\ ~WheelRevPresent(f)
BothFields(f) == Complete(f) /\ WheelRevPresent(f) /\ CrankRevPresent(f)

\* the crank block stored the two 16-bit values at 0-based offset k
CrankReadAt(f, k, rev, event) ==
    /\ rev = f[k + 1] + 256 * f[k + 2]
    /\ event = f[k + 3] + 256 * f[k + 4]

\* where the frame's fields are read, and the shadows a frame without the
\* wheel or the crank field keeps
FieldsNotZeroed ==
    /\ CrankOnly(obs'.frame) =>
          /\ CrankReadAt(obs'.frame, 1, last_crank_rev', last_crank_event')
          /\ last_wheel_rev' = last_wheel_rev
          /\ last_wheel_event' = last_wheel_event
          /\ data'.distance = data.distance
    /\ WheelOnly(obs'.frame) =>
          /\ last_crank_rev' = last_crank_rev
          /\ last_crank_event' = last_crank_event
          /\ data'.total_crank_rotations = data.total_crank_rotations
    /\ (BothFields(obs'.frame) /\ obs'.c.path # "absent") =>
          CrankReadAt(obs'.frame, 7, last_crank_rev', last_crank_event')

\* C24 as stated: absent fields are not read as zero: a crank-only
\* notification reads its crank fields at offset 1 and leaves last_wheel_rev,
\* last_wheel_event, distance and daily_distance unchanged; a wheel-only one
\* leaves last_crank_rev, last_crank_event and both rotation counters
\* unchanged; with both fields the crank fields are read at offset 7.
C24_AbsentFieldsUntouched ==
    [][obs'.op = "notify" =>
         /\ FieldsNotZeroed
         /\ CrankOnly(obs'.frame) =>
               data'.daily_distance = data.daily_distance
         /\ WheelOnly(obs'.frame) =>
               data'.daily_crank_rotations = data.daily_crank_rotations
      ]_vars

\* C24 amended: as stated, except that daily_distance (crank-only frame) and
\* daily_crank_rotations (wheel-only frame) are 0 after a call in which the
\* daily rollover fires.
C24_AbsentFieldsUntouchedOrReset ==
    [][obs'.op = "notify" =>
         /\ FieldsNotZeroed
         /\ CrankOnly(obs'.frame) =>
               data'.daily_distance =
                   IF obs'.reset THEN 0 ELSE data.daily_distance
         /\ WheelOnly(obs'.frame) =>
               data'.daily_crank_rotations =
                   IF obs'.reset THEN 0 ELSE data.daily_crank_rotations
      ]_vars

\* a crank-only frame was counted after distance had been ridden
C24_Witness ==
    /\ Notified
    /\ CrankOnly(obs.frame)
    /\ obs.c.path = "applied"
    /\ obs.c.offset = Some(1)
    /\ last_wheel_rev = U32(0, 5)
    /\ data.daily_distance > 0
    /\ data.daily_crank_rotations > 0

\* the notification gives no wheel-derived speed: it has no wheel fields, or
\* it is the first wheel frame, or its wheel event time is the stored one
NoWheelSpeed(f, lwe, sn) ==
    /\ Complete(f)
    /\ \/ CrankOnly(f)
       \/ WheelRevPresent(f) /\ (~sn.wheel \/ FrameWheelEvent(f) = lwe)

\* C22: a notification that yields no wheel-derived speed in this call
\* leaves total_calories and daily_calories unchanged (daily_calories 0 when
\* the rollover fires), even while a nonzero speed of an earlier
\* notification is stored.
C22_NoSpeedNoCalories ==
    [][(obs'.op = "notify"
          /\ NoWheelSpeed(obs'.frame, last_wheel_event, seen)) =>
         /\ data'.total_calories = data.total_calories
         /\ data'.daily_calories =
               IF obs'.reset THEN 0 ELSE data.daily_calories]_vars

\* --------------------------------------------------------------- C25
\* the eight daily and lifetime counters of the data record
Counters(d) == <<d.distance, d.total_active_time, d.total_calories,
                 d.total_crank_rotations, d.daily_distance,
                 d.daily_active_time, d.daily_calories,
                 d.daily_crank_rotations>>

Reconnected == obs'.op = "reconnect" /\ obs'.exit = "done"

\* C25: a successful reconnection resets last_wheel_event and
\* last_crank_event to 0 and leaves the daily and lifetime counters, the
\* revolution shadows and the activity fields as they were.
C25_ReconnectResetsEventShadows ==
    [][Reconnected =>
          /\ last_wheel_event' = 0
          /\ last_crank_event' = 0
          /\ Counters(data') = Counters(data)
          /\ last_wheel_rev' = last_wheel_rev
          /\ last_crank_rev' = last_crank_rev
          /\ activity_start_time' = activity_start_time]_vars

\* --------------------------------------------------------------- C26
\* C26: the snapshot handed to the presentation layer keeps the values it
\* had when it was handed over: while the object last published is still
\* the one the presentation layer holds, its values are the published ones.
C26_SnapshotImmutable ==
    snapshot_live => published = Some(data)

\* --------------------------------------------------------------- C27
\* everything a later handler call reads
HandlerInputs == <<last_wheel_rev, last_wheel_event, last_crank_rev,
                   last_crank_event, last_activity_check, last_active,
                   activity_start_time, daily_reset_time, data,
                   last_saved_daily_values, weight, resistance>>

FlushStep == obs'.op \in {"save", "poll_save"}
FlushFailed == FlushStep /\ obs'.exit # "done"
LoadFailed == obs'.op = "setup_failed"

\* C27: a failed write or read of the store changes no counter and no
\* field of the sensor state and raises nothing; a flush, failed or not,
\* leaves everything a later notification is processed from as it was, so
\* that later notifications are processed as after a successful flush.
C27_PersistenceFailureHarmless ==
    [][/\ (FlushFailed \/ LoadFailed) =>
              HandlerInputs' = HandlerInputs /\ obs'.exit # "raise"
       /\ FlushStep => HandlerInputs' = HandlerInputs]_vars

\* a write that failed with counters to lose
C27_Witness ==
    /\ obs.op = "save"
    /\ obs.exit = "caught"
    /\ ~IsNone(daily_reset_time)
    /\ data.distance > 0

\* --------------------------------------------------------------- C28
LifetimeCounters(d) == <<d.distance, d.total_active_time, d.total_calories,
                         d.total_crank_rotations>>
DailyCounters(d) == <<d.daily_distance, d.daily_active_time,
                      d.daily_calories, d.daily_crank_rotations>>
LocalDate(t) == t \div 86400

\* the store is read back at start-up
Restored == obs'.op = "setup" /\ ~IsNone(stored)

\* C28: restoring what a flush wrote gives the lifetime counters the flush
\* was built from; on the local date of the flush it also gives the daily
\* counters and the daily_reset_time the flush was built from, on a later
\* local date it gives daily counters of 0.
C28_SaveRestoreRoundTrip ==
    [][Restored =>
          /\ LifetimeCounters(data') = LifetimeCounters(Val(flushed).data)
          /\ LocalDate(now) = LocalDate(Val(flushed).at) =>
                 /\ DailyCounters(data') = DailyCounters(Val(flushed).data)
                 /\ daily_reset_time' = Some(Val(flushed).daily_reset_time)
          /\ LocalDate(now) > LocalDate(Val(flushed).at) =>
                 DailyCounters(data') = <<0, 0, 0, 0>>]_vars

\* counters flushed on one day and restored on the next
C28_Witness ==
    /\ obs.op = "setup"
    /\ ~IsNone(stored)
    /\ LocalDate(now) > LocalDate(Val(flushed).at)
    /\ DailyCounters(Val(flushed).data) # <<0, 0, 0, 0>>
    /\ data.distance > 0

\* --------------------------------------------------------------- C30
StoredCounters(sd) ==
    <<sd.distance, sd.total_active_time, sd.total_calories,
      sd.total_crank_rotations, sd.daily_values.values.daily_distance,
      sd.daily_values.values.daily_active_time,
      sd.daily_values.values.daily_calories,
      sd.daily_values.values.daily_crank_rotations>>

\* C30: whatever the interleaving of notifications and flushes, the store
\* is written by a flush only, never during a handler call, and the
\* counters a flush writes are the counters of the accumulator as the last
\* whole handler call left them, which the flush leaves as they are.
C30_FlushWritesWholeCallState ==
    [][stored' # stored =>
          /\ FlushStep
          /\ StoredCounters(Val(stored')) = Counters(data)
          /\ Counters(data') = Counters(data)]_vars

\* a flush that wrote the counters of a ride
C30_Witness ==
    /\ obs.op \in {"save", "poll_save"}
    /\ obs.exit = "done"
    /\ ~IsNone(stored)
    /\ Val(stored).daily_values.values.daily_distance > 0

\* --------------------------------------------------------------- C31
\* C31: no notification adds more than the 3-second inactivity timeout to
\* daily_active_time or to total_active_time, so a silent gap longer than
\* 3 s between two active notifications is not counted as active time.
C31_GapNotCountedAsActive ==
    [][obs'.op = "notify" =>
          /\ data'.total_active_time - data.total_active_time <= 3
          /\ data'.daily_active_time - data.daily_active_time <= 3]_vars

\* --------------------------------------------------------------- C33
\* a crank-bearing frame that follows an earlier crank frame with a
\* revolution delta (mod 65536) below 100
SmallCrankDeltaStep ==
    /\ obs'.op = "notify"
    /\ CarriesCrank(obs'.frame)
    /\ seen.crank
    /\ ModSub16(FrameCrankRevs(obs'.frame), last_crank_rev) < 100

\* C33: every crank frame after the first whose revolution delta is below
\* 100 adds that delta to total_crank_rotations, whatever its event
\* timestamp, so that the counter grows by the sum of the deltas.
C33_CrankRevolutionsConserved ==
    [][SmallCrankDeltaStep =>
          data'.total_crank_rotations =
              data.total_crank_rotations
              + ModSub16(FrameCrankRevs(obs'.frame), last_crank_rev)]_vars

\* --------------------------------------------------------------- C34
\* C34: starting from counters of 0 with nothing restored, each daily
\* counter is at most its lifetime counterpart in every reachable state.
C34_DailyWithinLifetime ==
    /\ data.daily_distance <= data.distance
    /\ data.daily_active_time <= data.total_active_time
    /\ data.daily_calories <= data.total_calories
    /\ data.daily_crank_rotations <= data.total_crank_rotations

\* a ride that went on after the rollover
C34_Witness ==
    /\ Notified
    /\ data.daily_distance > 0
    /\ data.daily_distance < data.distance
    /\ data.daily_calories < data.total_calories

\* --------------------------------------------------------------- C35
\* C35: between two callbacks is_active is true exactly when
\* activity_start_time is set.
C35_ActiveIffStarted ==
    data.is_active <=> ~IsNone(activity_start_time)

\* --------------------------------------------------------------- C36
\* C36: when a notification that carries all its fields is handled on a
\* coordinator set up by async_setup_entry, daily_reset_time has been
\* initialised, and the handler gets past the daily rollover check to its
\* publication.
C36_ResetTimeInitialisedOnSetupPath ==
    [][(obs'.op = "notify" /\ Complete(obs'.frame)) =>
          /\ ~IsNone(daily_reset_time)
          /\ obs'.exit # "raise"]_vars

\* --------------------------------------------------------------- C32
\* C32: once notifications stop arriving after an active one, is_active
\* eventually becomes false and speed and cadence eventually return to 0,
\* without another notification.
C32_SilenceEndsActivity ==
    [](data.is_active =>
          <>(~data.is_active /\ data.speed = 0 /\ data.cadence = 0))

\* --------------------------------------------------------------- C37
\* C37: wherever another task or callback can run, the snapshot field
\* is_connected equals the coordinator's connected flag.
C37_IsConnectedMirrorsFlag ==
    data.is_connected = connected

\* a connection made while a second forced reconnect was under way
C37_Witness ==
    /\ connected
    /\ data.is_connected
    /\ obs.op = "connect_end"
    /\ \E a \in AttemptIds : attempts[a] = "waiting"

\* --------------------------------------------------------------- C38
Connecting == {a \in AttemptIds : attempts[a] = "connecting"}

\* C38: at most one reconnect task is alive at any time, and at most one
\* connection attempt is inside the connection lock, creating a client and
\* connecting.
C38_OneReconnectOneAttempt ==
    /\ reconnect_alive <= 1
    /\ Cardinality(Connecting) <= 1

\* a reconnect task is alive and asleep, one forced reconnect is
\* connecting and another one waits for the lock
C38_Witness ==
    /\ reconnect_alive = 1
    /\ reconnect_task = "sleeping"
    /\ \E a \in AttemptIds : attempts[a] = "connecting"
    /\ \E a \in AttemptIds : attempts[a] = "waiting"

====
